---- MODULE Spec2Model ----
(***************************************************************************)
(* Model of src/tesseract-ocr-utils.cpp: the life cycle of the recognition *)
(* worker thread (initialize_tesseract_ocr, stop_and_join_tesseract_thread,*)
(* tesseract_thread) and the per-character smoothing filter                *)
(* (CharacterBasedSmoothingFilter).                                        *)
(*                                                                         *)
(* Spec       : one controlling thread issuing hard/soft initializations   *)
(*              and stops, the worker threads it spawns, a frame producer. *)
(* FilterSpec : a smoothing filter fed with arbitrary readings.            *)
(***************************************************************************)
EXTENDS Integers, Sequences, FiniteSets, TLC

----------------------------------------------------------------------------
(* Bounds *)

\* thread slots: one live worker plus one not yet joined
MaxThreads == 2
\* frames are rows of 1..MaxPixels pixels
MaxPixels == 2
\* largest word length of a smoothing filter
MaxW == 1
\* largest window size of a smoothing filter
MaxN == 3

\* regions a result iterator yields in one call
MaxRegions == 2

TIDs == 1..MaxThreads
NoThread == 0
\* line 218: smallest area of a box that is kept
MinBoxArea == 100
\* holders of tesseract_settings_mutex other than a worker
Unlocked == 0
Ctl == -1

Pixels == {0, 1}
EmptyFrame == << >>
Frames == UNION {[1..n -> Pixels] : n \in 1..MaxPixels}
\* percentages the change threshold is configured with
Percentages == {50, 100}

\* image sizes and bounding boxes, as <<width, height>>
ImageSizes == {<<20, 10>>, <<15, 15>>}
RectSizes == {<<5, 10>>, <<11, 9>>, <<10, 10>>, <<14, 8>>, <<15, 8>>}
\* confidences of a region, in tenths, and confidence thresholds
Confidences == {599, 600}
ConfThresholds == {60}
PageSegModes == {"PSM_AUTO", "PSM_SINGLE_CHAR"}
\* what the result iterator holds at one position
Regions == [empty : BOOLEAN, conf : Confidences, rect : RectSizes]

\* the preview, the image/mask sink and the text sink
Sinks == {"preview", "image", "text"}

Alphabet == {"A", "B"}
NUL == "NUL"
SPACE == " "
Words == UNION {[1..n -> Alphabet] : n \in 0..(MaxW + 1)}

----------------------------------------------------------------------------
VARIABLES
    \* filter_data
    tesseract_thread_run,      \* run flag, guarded by tesseract_mutex
    tesseract_thread,          \* std::thread handle: a TID, or NoThread
    tesseract_model,           \* backend handle
    tesseract_settings_mutex,  \* Unlocked, Ctl or the TID holding it
    inputBGRALock,             \* "free" or "producer"
    inputBGRA,                 \* shared frame slot
    lastInputBGRA,             \* last-frame cache
    update_on_change,          \* change detection enabled
    update_on_change_threshold,\* percentage
    enable_smoothing,          \* readings go through the smoothing filter
    \* controlling thread
    cpc,                       \* position of the controlling thread
    caller,                    \* operation in progress
    new_thread,                \* local of initialize_tesseract_ocr
    \* worker threads
    pc,                        \* position of each thread slot
    imageBGRA,                 \* snapshot local to each worker
    notified,                  \* condition variable: waiter was notified
    terminated,                \* std::terminate / crash of the process
    published,                 \* sinks each worker's iteration has written
    \* smoothing filter
    word_length, window_size, readings,
    out,                       \* last value returned by add_reading
    lastWord, lastRun,         \* current run of equal readings
    prevWord, prevRun,         \* the run before it
    \* extract_text_detection_boxes
    imageSize,                 \* argument: <<width, height>>
    pageSegmentationMode,      \* filter_data
    conf_threshold,            \* filter_data
    ri,                        \* result iterator: "none", "iterating", "done"
    region,                    \* what the iterator holds at its position
    visited,                   \* positions visited so far
    boxes                      \* std::vector<OCRBox> boxes

lifeVars == <<tesseract_thread_run, tesseract_thread, tesseract_model,
              tesseract_settings_mutex, inputBGRALock, inputBGRA,
              lastInputBGRA, update_on_change, update_on_change_threshold,
              enable_smoothing, cpc, caller, new_thread, pc, imageBGRA,
              notified, terminated, published>>
filterVars == <<word_length, window_size, readings, out,
                lastWord, lastRun, prevWord, prevRun>>
boxVars == <<imageSize, pageSegmentationMode, conf_threshold, ri, region,
             visited, boxes>>
vars == <<lifeVars, filterVars, boxVars>>

----------------------------------------------------------------------------
(* Helpers *)

Alive(t) == pc[t] \notin {"free", "done"}

\* lowest unused thread slot
FreeSlot == CHOOSE t \in TIDs : pc[t] = "free" /\ \A u \in TIDs : pc[u] = "free" => t <= u

\* cv::countNonZero(gray(absdiff(a, b))) for frames of equal size
CountNonZero(a, b) == Cardinality({i \in 1..Len(a) : a[i] # b[i]})

\* (int)((float)threshold / 100.0f * (float)(cols * rows)): the truncated
\* product; single-precision rounding gives the same integer for every
\* percentage in Percentages and every area up to MaxPixels + 1
ChangeThresholdFromImageArea(threshold, area) == (threshold * area) \div 100

\* lines 331-346: the frame is skipped by change detection
SkipUnchanged(image, last, enabled, threshold) ==
    /\ enabled
    /\ Len(image) = Len(last)
    /\ CountNonZero(image, last) < ChangeThresholdFromImageArea(threshold, Len(image))

----------------------------------------------------------------------------
(* CharacterBasedSmoothingFilter *)

Min(a, b) == IF a < b THEN a ELSE b

\* lines 228-234: word_length deques, each constructed with window_size
\* value-initialized characters
NewReadings(W, N) == [i \in 1..W |-> [j \in 1..N |-> NUL]]

\* lines 238-246: trim to word_length, pad with spaces up to word_length
Normalize(inWord, W) ==
    IF Len(inWord) > W THEN SubSeq(inWord, 1, W)
    ELSE IF Len(inWord) < W
           THEN inWord \o [j \in 1..(W - Len(inWord)) |-> SPACE]
           ELSE inWord

\* push_back without the eviction of the oldest reading
PushReadingNoPop(window, c, N) == Append(window, c)

\* lines 250-253: push_back, then pop_front when the deque outgrew the window
PushReading(window, c, N) ==
    LET pushed == Append(window, c)
    IN  IF Len(pushed) > N THEN Tail(pushed) ELSE pushed

\* std::count(window.begin(), window.end(), c)
Count(window, c) == Cardinality({j \in 1..Len(window) : window[j] = c})

\* max_element keeping the last of the elements that compare equal
MostCommonCharLast(window) ==
    LET largest[j \in 1..Len(window)] ==
            IF j = 1 THEN 1
            ELSE IF Count(window, window[largest[j - 1]]) <= Count(window, window[j])
                   THEN j
                   ELSE largest[j - 1]
    IN  window[largest[Len(window)]]

\* lines 256-260: std::max_element with the comparator count(a) < count(b);
\* the scan keeps the first element no later element compares greater than
MostCommonChar(window) ==
    LET largest[j \in 1..Len(window)] ==
            IF j = 1 THEN 1
            ELSE IF Count(window, window[largest[j - 1]]) < Count(window, window[j])
                   THEN j
                   ELSE largest[j - 1]
    IN  window[largest[Len(window)]]

\* lines 249-262: the windows after add_reading(inWord)
ReadingsAfter(rd, inWord, W, N) ==
    [i \in 1..W |-> PushReading(rd[i], Normalize(inWord, W)[i], N)]

\* add_reading looping over the characters of the input instead of the
\* positions of the filter
SmoothedWordOverInput(rd, inWord, W, N) ==
    [i \in 1..Min(Len(inWord), W) |->
        MostCommonChar(ReadingsAfter(rd, inWord, W, N)[i])]

\* lines 248-264: the string add_reading(inWord) returns
SmoothedWord(rd, inWord, W, N) ==
    [i \in 1..W |-> MostCommonChar(ReadingsAfter(rd, inWord, W, N)[i])]

\* lines 128-131: make_unique<CharacterBasedSmoothingFilter>(word_length,
\* window_size)
MakeFilter(W, N) ==
    /\ word_length' = W
    /\ window_size' = N
    /\ readings' = NewReadings(W, N)
    /\ out' = << >>
    /\ lastWord' = << >>
    /\ lastRun' = 0
    /\ prevWord' = << >>
    /\ prevRun' = 0

\* lines 236-265: add_reading(inWord); lastWord, lastRun, prevWord and
\* prevRun record the last two runs of equal readings, run lengths counted
\* up to window_size
AddReading(inWord) ==
    /\ readings' = ReadingsAfter(readings, inWord, word_length, window_size)
    /\ out' = SmoothedWord(readings, inWord, word_length, window_size)
    /\ IF lastRun > 0 /\ inWord = lastWord
         THEN /\ lastRun' = Min(lastRun + 1, window_size)
              /\ UNCHANGED <<lastWord, prevWord, prevRun>>
         ELSE /\ lastWord' = inWord
              /\ lastRun' = 1
              /\ prevWord' = lastWord
              /\ prevRun' = lastRun
    /\ UNCHANGED <<word_length, window_size>>

----------------------------------------------------------------------------
(* Initial state: filter_data after construction, nothing initialized yet *)

FilterIdle ==
    /\ word_length = 0
    /\ window_size = 1
    /\ readings = << >>
    /\ out = << >>
    /\ lastWord = << >>
    /\ lastRun = 0
    /\ prevWord = << >>
    /\ prevRun = 0

\* no call of extract_text_detection_boxes in progress
BoxIdle ==
    /\ imageSize = <<20, 10>>
    /\ pageSegmentationMode = "PSM_AUTO"
    /\ conf_threshold = 60
    /\ ri = "none"
    /\ region = [empty |-> TRUE, conf |-> 600, rect |-> <<10, 10>>]
    /\ visited = 0
    /\ boxes = << >>

LifeIdle ==
    /\ tesseract_thread_run = FALSE
    /\ tesseract_thread = NoThread
    /\ tesseract_model = "null"
    /\ tesseract_settings_mutex = Unlocked
    /\ inputBGRALock = "free"
    /\ inputBGRA = EmptyFrame
    /\ lastInputBGRA = EmptyFrame
    /\ cpc = "idle"
    /\ caller = "none"
    /\ new_thread = NoThread
    /\ pc = [t \in TIDs |-> "free"]
    /\ imageBGRA = [t \in TIDs |-> EmptyFrame]
    /\ notified = [t \in TIDs |-> FALSE]
    /\ terminated = FALSE
    /\ published = [t \in TIDs |-> {}]

Init ==
    /\ LifeIdle
    /\ update_on_change \in BOOLEAN
    /\ update_on_change_threshold \in Percentages
    /\ enable_smoothing = FALSE
    /\ FilterIdle
    /\ BoxIdle

----------------------------------------------------------------------------
(* Frame producer: writes the shared frame slot under inputBGRALock *)

ProducerLock ==
    /\ ~terminated
    /\ inputBGRALock = "free"
    /\ inputBGRALock' = "producer"
    /\ UNCHANGED <<tesseract_thread_run, tesseract_thread, tesseract_model,
                   tesseract_settings_mutex, inputBGRA, lastInputBGRA,
                   update_on_change, update_on_change_threshold,
                   enable_smoothing, cpc, caller, new_thread, pc, imageBGRA,
                   notified, terminated, published, filterVars,
                   boxVars>>

ProducerWrite ==
    /\ ~terminated
    /\ inputBGRALock = "producer"
    /\ \E f \in Frames : inputBGRA' = f
    /\ inputBGRALock' = "free"
    /\ UNCHANGED <<tesseract_thread_run, tesseract_thread, tesseract_model,
                   tesseract_settings_mutex, lastInputBGRA,
                   update_on_change, update_on_change_threshold,
                   enable_smoothing, cpc, caller, new_thread, pc, imageBGRA,
                   notified, terminated, published, filterVars,
                   boxVars>>

----------------------------------------------------------------------------
(* Controlling thread *)

ctlUnchanged == <<inputBGRALock, inputBGRA, lastInputBGRA, update_on_change,
                  update_on_change_threshold, enable_smoothing, imageBGRA,
                  published, boxVars>>

\* a call of initialize_tesseract_ocr(tf, hard) or of
\* stop_and_join_tesseract_thread(tf) by the host
Call ==
    /\ ~terminated
    /\ cpc = "idle"
    /\ \E c \in {"init_hard", "init_soft", "stop"} :
          /\ caller' = c
          /\ cpc' = IF c = "init_soft" THEN "init_lock" ELSE "stop_check"
    /\ UNCHANGED <<tesseract_thread_run, tesseract_thread, tesseract_model,
                   tesseract_settings_mutex, new_thread, pc, notified,
                   terminated, ctlUnchanged,
                   filterVars>>

\* lines 278-285: under tesseract_mutex
StopCheck ==
    /\ ~terminated
    /\ cpc = "stop_check"
    /\ IF ~tesseract_thread_run
         THEN /\ cpc' = "stop_ret"
              /\ UNCHANGED tesseract_thread_run
         ELSE /\ tesseract_thread_run' = FALSE
              /\ cpc' = "stop_notify"
    /\ UNCHANGED <<tesseract_thread, tesseract_model,
                   tesseract_settings_mutex, caller, new_thread, pc, notified,
                   terminated, ctlUnchanged,
                   filterVars>>

\* line 286: notify_all wakes every thread waiting on the condition variable
StopNotify ==
    /\ ~terminated
    /\ cpc = "stop_notify"
    /\ notified' = [t \in TIDs |-> IF pc[t] = "wait" THEN TRUE ELSE notified[t]]
    /\ cpc' = "stop_join"
    /\ UNCHANGED <<tesseract_thread_run, tesseract_thread, tesseract_model,
                   tesseract_settings_mutex, caller, new_thread, pc,
                   terminated, ctlUnchanged,
                   filterVars>>

\* lines 287-289: join blocks until the thread function has returned
StopJoin ==
    /\ ~terminated
    /\ cpc = "stop_join"
    /\ IF tesseract_thread = NoThread
         THEN UNCHANGED <<tesseract_thread, pc>>
         ELSE /\ pc[tesseract_thread] = "done"
              /\ pc' = [pc EXCEPT ![tesseract_thread] = "free"]
              /\ tesseract_thread' = NoThread
    /\ cpc' = "stop_ret"
    /\ UNCHANGED <<tesseract_thread_run, tesseract_model,
                   tesseract_settings_mutex, caller, new_thread, notified,
                   terminated, ctlUnchanged,
                   filterVars>>

\* stop_and_join_tesseract_thread returns to its caller (line 54 or the host)
StopReturn ==
    /\ ~terminated
    /\ cpc = "stop_ret"
    /\ IF caller = "init_hard"
         THEN /\ cpc' = "init_teardown"
              /\ UNCHANGED caller
         ELSE /\ cpc' = "idle"
              /\ caller' = "none"
    /\ UNCHANGED <<tesseract_thread_run, tesseract_thread, tesseract_model,
                   tesseract_settings_mutex, new_thread, pc, notified,
                   terminated, ctlUnchanged,
                   filterVars>>

\* lines 55-56: tesseract_model->End()
InitEnd ==
    /\ ~terminated
    /\ cpc = "init_teardown"
    /\ IF tesseract_model # "null"
         THEN /\ tesseract_model' = "ended"
              /\ cpc' = "init_delete"
         ELSE /\ UNCHANGED tesseract_model
              /\ cpc' = "init_lock"
    /\ UNCHANGED <<tesseract_thread_run, tesseract_thread,
                   tesseract_settings_mutex, caller, new_thread, pc, notified,
                   terminated, ctlUnchanged,
                   filterVars>>

\* line 57: delete tesseract_model
InitDelete ==
    /\ ~terminated
    /\ cpc = "init_delete"
    /\ tesseract_model' = "deleted"
    /\ cpc' = "init_null"
    /\ UNCHANGED <<tesseract_thread_run, tesseract_thread,
                   tesseract_settings_mutex, caller, new_thread, pc, notified,
                   terminated, ctlUnchanged,
                   filterVars>>

\* line 58: tesseract_model = nullptr
InitNull ==
    /\ ~terminated
    /\ cpc = "init_null"
    /\ tesseract_model' = "null"
    /\ cpc' = "init_lock"
    /\ UNCHANGED <<tesseract_thread_run, tesseract_thread,
                   tesseract_settings_mutex, caller, new_thread, pc, notified,
                   terminated, ctlUnchanged,
                   filterVars>>

\* line 62: lock_guard on tesseract_settings_mutex, held to the end of the try
InitLock ==
    /\ ~terminated
    /\ cpc = "init_lock"
    /\ tesseract_settings_mutex = Unlocked
    /\ tesseract_settings_mutex' = Ctl
    /\ cpc' = IF caller = "init_hard" THEN "init_load" ELSE "init_config"
    /\ UNCHANGED <<tesseract_thread_run, tesseract_thread, tesseract_model,
                   caller, new_thread, pc, notified, terminated, ctlUnchanged,
                   filterVars>>

\* lines 103-118 and 138-141: new TessBaseAPI, Init; a non-zero return value
\* throws, the handler logs and returns
InitLoad ==
    /\ ~terminated
    /\ cpc = "init_load"
    /\ \E retval \in {0, 1} :
          IF retval = 0
            THEN /\ tesseract_model' = "loaded"
                 /\ cpc' = "init_config"
                 /\ UNCHANGED <<tesseract_settings_mutex, caller>>
            ELSE /\ tesseract_model' = "failed"
                 /\ tesseract_settings_mutex' = Unlocked
                 /\ cpc' = "idle"
                 /\ caller' = "none"
    /\ UNCHANGED <<tesseract_thread_run, tesseract_thread, new_thread, pc,
                   notified, terminated, ctlUnchanged,
                   filterVars>>

\* lines 120-131: SetPageSegMode, SetVariable, then a new smoothing filter
\* when smoothing is enabled; the first two dereference the handle, which is
\* null when no hard initialization came before
InitConfig ==
    /\ ~terminated
    /\ cpc = "init_config"
    /\ \/ /\ tesseract_model = "null"
          /\ terminated' = TRUE
          /\ UNCHANGED <<cpc, caller, tesseract_settings_mutex, filterVars>>
       \/ /\ UNCHANGED terminated
          /\ IF enable_smoothing
               THEN \E W \in 0..MaxW, N \in 1..MaxN : MakeFilter(W, N)
               ELSE UNCHANGED filterVars
          /\ IF caller = "init_hard"
               THEN /\ cpc' = "init_spawn"
                    /\ UNCHANGED <<caller, tesseract_settings_mutex>>
               ELSE /\ cpc' = "idle"
                    /\ caller' = "none"
                    /\ tesseract_settings_mutex' = Unlocked
    /\ UNCHANGED <<tesseract_thread_run, tesseract_thread, tesseract_model,
                   new_thread, pc, notified, ctlUnchanged>>

\* lines 133-135: std::thread new_thread(tesseract_thread, tf)
InitSpawn ==
    /\ ~terminated
    /\ cpc = "init_spawn"
    /\ \E t \in TIDs : pc[t] = "free"
    /\ new_thread' = FreeSlot
    /\ pc' = [pc EXCEPT ![FreeSlot] = "start"]
    /\ cpc' = "init_swap"
    /\ UNCHANGED <<tesseract_thread_run, tesseract_thread, tesseract_model,
                   tesseract_settings_mutex, caller, notified, terminated,
                   ctlUnchanged,
                   filterVars>>

\* lines 136-137: swap, then the destructor of new_thread, which calls
\* std::terminate when it took over a joinable thread
InitSwap ==
    /\ ~terminated
    /\ cpc = "init_swap"
    /\ tesseract_thread' = new_thread
    /\ new_thread' = NoThread
    /\ terminated' = (tesseract_thread # NoThread)
    /\ tesseract_settings_mutex' = Unlocked
    /\ cpc' = "idle"
    /\ caller' = "none"
    /\ UNCHANGED <<tesseract_thread_run, tesseract_model, pc, notified,
                   ctlUnchanged,
                   filterVars>>

----------------------------------------------------------------------------
(* Worker thread: tesseract_thread *)

wrkUnchanged == <<tesseract_thread, tesseract_model, inputBGRALock, inputBGRA,
                  update_on_change, update_on_change_threshold,
                  enable_smoothing, cpc, caller, new_thread, boxVars>>

\* lines 297-304: the thread sets the run flag itself
ThreadStart(t) ==
    /\ ~terminated
    /\ pc[t] = "start"
    /\ tesseract_thread_run' = TRUE
    /\ pc' = [pc EXCEPT ![t] = "loop"]
    /\ UNCHANGED <<tesseract_settings_mutex, lastInputBGRA, imageBGRA,
                   notified, terminated, wrkUnchanged, published,
                   filterVars>>

\* lines 306-312: the run flag is read at the top of every iteration
LoopCheck(t) ==
    /\ ~terminated
    /\ pc[t] = "loop"
    /\ pc' = [pc EXCEPT ![t] = IF tesseract_thread_run THEN "snap" ELSE "exit"]
    /\ UNCHANGED <<tesseract_thread_run, tesseract_settings_mutex,
                   lastInputBGRA, imageBGRA, notified, terminated,
                   wrkUnchanged, published,
                   filterVars>>

\* a snapshot that reads the frame slot whoever holds its lock
SnapshotUnlocked(t) ==
    /\ ~terminated
    /\ pc[t] = "snap"
    /\ imageBGRA' = [imageBGRA EXCEPT ![t] = inputBGRA]
    /\ pc' = [pc EXCEPT ![t] = IF inputBGRA # EmptyFrame THEN "lock_settings"
                                                          ELSE "sleep"]
    /\ UNCHANGED <<tesseract_thread_run, tesseract_settings_mutex,
                   lastInputBGRA, notified, terminated, wrkUnchanged,
                   published, filterVars>>

\* lines 315-326: try_to_lock on inputBGRALock, clone when it was obtained
Snapshot(t) ==
    /\ ~terminated
    /\ pc[t] = "snap"
    /\ LET image == IF inputBGRALock = "free" THEN inputBGRA ELSE EmptyFrame
       IN  /\ imageBGRA' = [imageBGRA EXCEPT ![t] = image]
           /\ pc' = [pc EXCEPT ![t] = IF image # EmptyFrame THEN "lock_settings"
                                                            ELSE "sleep"]
    /\ UNCHANGED <<tesseract_thread_run, tesseract_settings_mutex,
                   lastInputBGRA, notified, terminated, wrkUnchanged, published,
                   filterVars>>

\* processing that starts without waiting for the settings lock
LockSettingsNoWait(t) ==
    /\ ~terminated
    /\ pc[t] = "lock_settings"
    /\ tesseract_settings_mutex' = t
    /\ pc' = [pc EXCEPT ![t] = "detect"]
    /\ UNCHANGED <<tesseract_thread_run, lastInputBGRA, imageBGRA, notified,
                   terminated, wrkUnchanged, published, filterVars>>

\* line 328: lock_guard on tesseract_settings_mutex
LockSettings(t) ==
    /\ ~terminated
    /\ pc[t] = "lock_settings"
    /\ tesseract_settings_mutex = Unlocked
    /\ tesseract_settings_mutex' = t
    /\ pc' = [pc EXCEPT ![t] = "detect"]
    /\ UNCHANGED <<tesseract_thread_run, lastInputBGRA, imageBGRA, notified,
                   terminated, wrkUnchanged, published,
                   filterVars>>

\* change detection that refreshes the cache with every observed frame
ChangeDetectRefreshing(t) ==
    /\ ~terminated
    /\ pc[t] = "detect"
    /\ IF SkipUnchanged(imageBGRA[t], lastInputBGRA, update_on_change,
                        update_on_change_threshold)
         THEN /\ tesseract_settings_mutex' = Unlocked
              /\ imageBGRA' = [imageBGRA EXCEPT ![t] = EmptyFrame]
              /\ lastInputBGRA' = imageBGRA[t]
              /\ pc' = [pc EXCEPT ![t] = "loop"]
         ELSE /\ pc' = [pc EXCEPT ![t] = "cache"]
              /\ UNCHANGED <<tesseract_settings_mutex, imageBGRA,
                             lastInputBGRA>>
    /\ UNCHANGED <<tesseract_thread_run, notified, terminated, wrkUnchanged, published,
                   filterVars>>

\* lines 330-347: change detection; an unchanged frame leaves the try block
\* with continue, which goes to the top of the while loop
ChangeDetect(t) ==
    /\ ~terminated
    /\ pc[t] = "detect"
    /\ IF SkipUnchanged(imageBGRA[t], lastInputBGRA, update_on_change,
                        update_on_change_threshold)
         THEN /\ tesseract_settings_mutex' = Unlocked
              /\ imageBGRA' = [imageBGRA EXCEPT ![t] = EmptyFrame]
              /\ pc' = [pc EXCEPT ![t] = "loop"]
         ELSE /\ pc' = [pc EXCEPT ![t] = "cache"]
              /\ UNCHANGED <<tesseract_settings_mutex, imageBGRA>>
    /\ UNCHANGED <<tesseract_thread_run, lastInputBGRA, notified, terminated,
                   wrkUnchanged, published,
                   filterVars>>

\* line 348: lastInputBGRA = imageBGRA.clone()
UpdateCache(t) ==
    /\ ~terminated
    /\ pc[t] = "cache"
    /\ lastInputBGRA' = imageBGRA[t]
    /\ pc' = [pc EXCEPT ![t] = "preprocess"]
    /\ UNCHANGED <<tesseract_thread_run, tesseract_settings_mutex, imageBGRA,
                   notified, terminated, wrkUnchanged, published,
                   filterVars>>

\* lines 350-404: binarization and dilation, then the preview sink when
\* previewBinarization is set
Preprocess(t) ==
    /\ ~terminated
    /\ pc[t] = "preprocess"
    /\ \E previewBinarization \in BOOLEAN :
          published' = [published EXCEPT ![t] =
                           IF previewBinarization THEN @ \cup {"preview"} ELSE @]
    /\ pc' = [pc EXCEPT ![t] = "rescale"]
    /\ UNCHANGED <<tesseract_thread_run, tesseract_settings_mutex,
                   lastInputBGRA, imageBGRA, notified, terminated,
                   wrkUnchanged, filterVars>>

\* lines 406-413: rescale to the target height
Rescale(t) ==
    /\ ~terminated
    /\ pc[t] = "rescale"
    /\ pc' = [pc EXCEPT ![t] = "ocr"]
    /\ UNCHANGED <<tesseract_thread_run, tesseract_settings_mutex,
                   lastInputBGRA, imageBGRA, notified, terminated,
                   wrkUnchanged, published, filterVars>>

\* line 416, lines 155-182: run_tesseract_ocr dereferences the backend
\* handle; on a handle that is null, ended or deleted the call either
\* crashes the process or returns.  A recognized text that passes the
\* confidence threshold goes through the smoothing filter when enabled.
RunOcr(t) ==
    /\ ~terminated
    /\ pc[t] = "ocr"
    /\ \/ /\ pc' = [pc EXCEPT ![t] = "boxes"]
          /\ \E confident \in BOOLEAN, text \in Words :
                IF confident /\ enable_smoothing
                  THEN AddReading(text)
                  ELSE UNCHANGED filterVars
          /\ UNCHANGED terminated
       \/ /\ tesseract_model \in {"null", "ended", "deleted"}
          /\ terminated' = TRUE
          /\ UNCHANGED <<pc, filterVars>>
    /\ UNCHANGED <<tesseract_thread_run, tesseract_settings_mutex,
                   lastInputBGRA, imageBGRA, notified, wrkUnchanged, published>>

\* lines 418-454, 184-226: with an image sink selected,
\* extract_text_detection_boxes, the mask or overlay, and its publication
\* by setTextDetectionMaskCallback
Boxes(t) ==
    /\ ~terminated
    /\ pc[t] = "boxes"
    /\ \E imageSink \in BOOLEAN :
          \/ /\ pc' = [pc EXCEPT ![t] = "publish"]
             /\ published' = [published EXCEPT ![t] =
                                 IF imageSink THEN @ \cup {"image"} ELSE @]
             /\ UNCHANGED terminated
          \/ /\ imageSink
             /\ tesseract_model \in {"null", "ended", "deleted"}
             /\ terminated' = TRUE
             /\ UNCHANGED <<pc, published>>
    /\ UNCHANGED <<tesseract_thread_run, tesseract_settings_mutex,
                   lastInputBGRA, imageBGRA, notified, wrkUnchanged,
                   filterVars>>

\* lines 456-462: a non-empty result is formatted and sent to the text
\* sink when one is selected; the try block ends
Publish(t) ==
    /\ ~terminated
    /\ pc[t] = "publish"
    /\ \E textSink \in BOOLEAN :
          published' = [published EXCEPT ![t] =
                           IF textSink THEN @ \cup {"text"} ELSE @]
    /\ tesseract_settings_mutex' = Unlocked
    /\ pc' = [pc EXCEPT ![t] = "sleep"]
    /\ UNCHANGED <<tesseract_thread_run, lastInputBGRA, imageBGRA, notified,
                   terminated, wrkUnchanged, filterVars>>

\* the handler of an exception leaves the loop
CatchLogExits(t) ==
    /\ ~terminated
    /\ pc[t] = "catch"
    /\ pc' = [pc EXCEPT ![t] = "exit"]
    /\ UNCHANGED <<tesseract_thread_run, tesseract_settings_mutex,
                   lastInputBGRA, imageBGRA, notified, terminated,
                   wrkUnchanged, published, filterVars>>

\* line 462: a processing stage throws a std::exception; unwinding releases
\* the lock_guard of the try block before the handler runs
Catch(t) ==
    /\ ~terminated
    /\ pc[t] \in {"preprocess", "rescale", "ocr", "boxes", "publish"}
    /\ tesseract_settings_mutex' = Unlocked
    /\ pc' = [pc EXCEPT ![t] = "catch"]
    /\ UNCHANGED <<tesseract_thread_run, lastInputBGRA, imageBGRA, notified,
                   terminated, wrkUnchanged, published, filterVars>>

\* lines 463-464: the handler logs the failure and the iteration goes on
\* to the sleep step
CatchLog(t) ==
    /\ ~terminated
    /\ pc[t] = "catch"
    /\ pc' = [pc EXCEPT ![t] = "sleep"]
    /\ UNCHANGED <<tesseract_thread_run, tesseract_settings_mutex,
                   lastInputBGRA, imageBGRA, notified, terminated,
                   wrkUnchanged, published, filterVars>>

\* lines 467-473: sleep_time_ms = update_timer_ms - elapsed; the wait is
\* entered only when it is positive
SleepStep(t) ==
    /\ ~terminated
    /\ pc[t] = "sleep"
    /\ \E positive \in BOOLEAN :
          pc' = [pc EXCEPT ![t] = IF positive THEN "wait" ELSE "loop"]
    /\ notified' = [notified EXCEPT ![t] = FALSE]
    /\ imageBGRA' = [imageBGRA EXCEPT ![t] = EmptyFrame]
    /\ published' = [published EXCEPT ![t] = {}]
    /\ UNCHANGED <<tesseract_thread_run, tesseract_settings_mutex,
                   lastInputBGRA, terminated, wrkUnchanged,
                   filterVars>>

\* a wait that only a notification ends
WaitReturnNotified(t) ==
    /\ ~terminated
    /\ pc[t] = "wait"
    /\ notified[t]
    /\ pc' = [pc EXCEPT ![t] = "loop"]
    /\ notified' = [notified EXCEPT ![t] = FALSE]
    /\ UNCHANGED <<tesseract_thread_run, tesseract_settings_mutex,
                   lastInputBGRA, imageBGRA, terminated, wrkUnchanged,
                   published, filterVars>>

\* lines 475-477: wait_for returns on a notification, on the timeout or
\* spuriously; it has no predicate
WaitReturn(t) ==
    /\ ~terminated
    /\ pc[t] = "wait"
    /\ pc' = [pc EXCEPT ![t] = "loop"]
    /\ notified' = [notified EXCEPT ![t] = FALSE]
    /\ UNCHANGED <<tesseract_thread_run, tesseract_settings_mutex,
                   lastInputBGRA, imageBGRA, terminated, wrkUnchanged, published,
                   filterVars>>

\* lines 479-485: the thread clears the run flag and returns
ThreadExit(t) ==
    /\ ~terminated
    /\ pc[t] = "exit"
    /\ tesseract_thread_run' = FALSE
    /\ pc' = [pc EXCEPT ![t] = "done"]
    /\ UNCHANGED <<tesseract_settings_mutex, lastInputBGRA, imageBGRA,
                   notified, terminated, wrkUnchanged, published,
                   filterVars>>

----------------------------------------------------------------------------
Next ==
    \/ ProducerLock
    \/ ProducerWrite
    \/ Call
    \/ StopCheck
    \/ StopNotify
    \/ StopJoin
    \/ StopReturn
    \/ InitEnd
    \/ InitDelete
    \/ InitNull
    \/ InitLock
    \/ InitLoad
    \/ InitConfig
    \/ InitSpawn
    \/ InitSwap
    \/ \E t \in TIDs : ThreadStart(t)
    \/ \E t \in TIDs : LoopCheck(t)
    \/ \E t \in TIDs : Snapshot(t)
    \/ \E t \in TIDs : LockSettings(t)
    \/ \E t \in TIDs : ChangeDetect(t)
    \/ \E t \in TIDs : UpdateCache(t)
    \/ \E t \in TIDs : Preprocess(t)
    \/ \E t \in TIDs : Rescale(t)
    \/ \E t \in TIDs : RunOcr(t)
    \/ \E t \in TIDs : Boxes(t)
    \/ \E t \in TIDs : Publish(t)
    \/ \E t \in TIDs : Catch(t)
    \/ \E t \in TIDs : CatchLog(t)
    \/ \E t \in TIDs : SleepStep(t)
    \/ \E t \in TIDs : WaitReturn(t)
    \/ \E t \in TIDs : ThreadExit(t)

Spec == Init /\ [][Next]_vars

\* the positions of a worker inside the try block, under the settings lock
Stages == {"detect", "cache", "preprocess", "rescale", "ocr", "boxes", "publish"}

\* every step of worker t
Worker(t) ==
    \/ ThreadStart(t) \/ LoopCheck(t) \/ Snapshot(t) \/ LockSettings(t)
    \/ ChangeDetect(t) \/ UpdateCache(t) \/ Preprocess(t) \/ Rescale(t)
    \/ RunOcr(t) \/ Boxes(t) \/ Publish(t) \/ Catch(t) \/ CatchLog(t)
    \/ SleepStep(t) \/ WaitReturn(t) \/ ThreadExit(t)

\* every step of stop_and_join_tesseract_thread
Stopper == StopCheck \/ StopNotify \/ StopJoin \/ StopReturn

\* Spec with fair scheduling: a thread that can take a step eventually takes
\* one (a timed wait eventually times out, a free mutex is eventually
\* acquired); nothing is assumed of the frame producer or of the host
FairSpec ==
    /\ Spec
    /\ \A t \in TIDs : WF_vars(Worker(t))
    /\ WF_vars(Stopper)

----------------------------------------------------------------------------
(* FilterSpec: a smoothing filter of any word length and window size, fed  *)
(* with readings of any length                                             *)

FilterInit ==
    /\ LifeIdle
    /\ update_on_change = FALSE
    /\ update_on_change_threshold = 100
    /\ enable_smoothing = TRUE
    /\ \E W \in 0..MaxW, N \in 1..MaxN :
          /\ word_length = W
          /\ window_size = N
          /\ readings = NewReadings(W, N)
    /\ out = << >>
    /\ lastWord = << >>
    /\ lastRun = 0
    /\ prevWord = << >>
    /\ prevRun = 0
    /\ BoxIdle

\* the filter is replaced by a new one (lines 128-131)
FilterConstruct ==
    /\ \E W \in 0..MaxW, N \in 1..MaxN : MakeFilter(W, N)
    /\ UNCHANGED <<lifeVars, boxVars>>

\* smoothing_filter->add_reading(text) (line 178)
FilterAddReading ==
    /\ \E text \in Words : AddReading(text)
    /\ UNCHANGED <<lifeVars, boxVars>>

FilterNext ==
    \/ FilterConstruct
    \/ FilterAddReading

FilterSpec == FilterInit /\ [][FilterNext]_vars

----------------------------------------------------------------------------
(* extract_text_detection_boxes *)

\* line 216: (right - left) * (bottom - top)
Area(rect) == rect[1] * rect[2]

\* lines 191-194: word level, symbol level in single-character mode
Level(psm) == IF psm = "PSM_SINGLE_CHAR" THEN "RIL_SYMBOL" ELSE "RIL_WORD"

\* line 204: (int)conf of a confidence given in tenths
IntConf(conf) == conf \div 10

\* the area test with the upper bound taken as exclusive
KeepBoxBelowHalf(r, psm, threshold, size) ==
    /\ ~r.empty
    /\ ~(Level(psm) = "RIL_WORD" /\ IntConf(r.conf) < threshold)
    /\ ~(Area(r.rect) < MinBoxArea \/ Area(r.rect) >= (size[1] * size[2]) \div 2)

\* lines 197-220: the region is pushed to boxes: it is not empty, at word
\* level its confidence is not below the threshold, and its area is neither
\* below 100 nor above half the image area (integer division)
KeepBox(r, psm, threshold, size) ==
    /\ ~r.empty
    /\ ~(Level(psm) = "RIL_WORD" /\ IntConf(r.conf) < threshold)
    /\ ~(Area(r.rect) < MinBoxArea \/ Area(r.rect) > (size[1] * size[2]) \div 2)

\* lines 184-195: the call; GetIterator may return null, and then the
\* result is empty
BoxCall ==
    /\ ri \in {"none", "done"}
    /\ \E size \in ImageSizes, psm \in PageSegModes, threshold \in ConfThresholds :
          /\ imageSize' = size
          /\ pageSegmentationMode' = psm
          /\ conf_threshold' = threshold
    /\ \E null \in BOOLEAN : ri' = IF null THEN "done" ELSE "iterating"
    /\ boxes' = << >>
    /\ visited' = 0
    /\ UNCHANGED <<region, lifeVars, filterVars>>

\* lines 196-225: one pass of the do-while loop over what the iterator
\* holds, then ri->Next(level)
BoxVisit ==
    /\ ri = "iterating"
    /\ visited < MaxRegions
    /\ \E r \in Regions :
          /\ region' = r
          /\ boxes' = IF KeepBox(r, pageSegmentationMode, conf_threshold, imageSize)
                        THEN Append(boxes, r.rect)
                        ELSE boxes
    /\ visited' = visited + 1
    /\ \E next \in BOOLEAN :
          ri' = IF next /\ visited' < MaxRegions THEN "iterating" ELSE "done"
    /\ UNCHANGED <<imageSize, pageSegmentationMode, conf_threshold, lifeVars,
                   filterVars>>

BoxInit ==
    /\ LifeIdle
    /\ update_on_change = FALSE
    /\ update_on_change_threshold = 100
    /\ enable_smoothing = FALSE
    /\ FilterIdle
    /\ BoxIdle

BoxNext ==
    \/ BoxCall
    \/ BoxVisit

BoxSpec == BoxInit /\ [][BoxNext]_vars

----------------------------------------------------------------------------
(* Claims *)

\* C1: when stop_and_join_tesseract_thread returns, no worker thread is
\* alive: the thread of the most recent hard initialization has terminated.
C1_StopReturnsAfterWorkerEnded ==
    cpc = "stop_ret" => \A t \in TIDs : ~Alive(t)

\* C2: no worker is inside run_tesseract_ocr or extract_text_detection_boxes
\* while the backend is ended or deleted or its handle is null.
C2_NoProcessingWithoutBackend ==
    \A t \in TIDs :
        pc[t] \in {"ocr", "boxes"} => tesseract_model \notin {"null", "ended", "deleted"}

\* C3: at most one worker thread is alive at any time, and the thread handle
\* is empty (joined) when a new thread is swapped into it.
C3_AtMostOneWorker ==
    /\ Cardinality({t \in TIDs : Alive(t)}) <= 1
    /\ cpc = "init_swap" => tesseract_thread = NoThread

C5_StopAbortsSleep ==
    cpc = "stop_join" => \A t \in TIDs : pc[t] = "wait" => notified[t]

\* C6: add_reading returns a string of exactly word_length characters.
C6_OutputHasWordLength ==
    lastRun > 0 => Len(out) = word_length

C6_Witness ==
    /\ lastRun > 0
    /\ word_length >= 1
    /\ window_size >= 2
    /\ Len(lastWord) > word_length
    /\ prevRun > 0
    /\ Len(prevWord) < word_length
    /\ Len(out) = word_length

\* C7: after the same word of length word_length was fed window_size times
\* in a row, add_reading returns that word.
C7_SteadyState ==
    (lastRun >= window_size /\ Len(lastWord) = word_length) => out = lastWord

C7_Witness ==
    /\ word_length >= 1
    /\ window_size >= 2
    /\ lastRun >= window_size
    /\ Len(lastWord) = word_length
    /\ prevRun > 0
    /\ out = lastWord

\* C8 as stated: with word length 1, after window_size readings of "A", the
\* readings of "B" return "A" until the window_size-th one, which returns "B".
C8_HoldsUntilDisplaced ==
    (/\ word_length = 1
     /\ prevWord = <<"A">> /\ prevRun >= window_size
     /\ lastWord = <<"B">>)
    => out = IF lastRun < window_size THEN <<"A">> ELSE <<"B">>

\* C8 amended: with word length 1, after window_size readings of "A", a
\* reading of "B" returns "A" as long as the "B"s in the window do not
\* outnumber the "A"s, and "B" from the first reading at which they do.
C8_HoldsWhileMajority ==
    (/\ word_length = 1
     /\ prevWord = <<"A">> /\ prevRun >= window_size
     /\ lastWord = <<"B">>)
    => out = IF 2 * lastRun > window_size THEN <<"B">> ELSE <<"A">>

C8_Witness ==
    /\ word_length = 1
    /\ prevWord = <<"A">> /\ prevRun >= window_size
    /\ lastWord = <<"B">>
    /\ lastRun >= 2
    /\ lastRun < window_size
    /\ out = <<"B">>

\* C9: with change detection enabled, a snapshot identical to the cached
\* frame never passes change detection.
C9_IdenticalFrameSkipped ==
    \A t \in TIDs :
        ~(pc[t] = "cache" /\ update_on_change /\ imageBGRA[t] = lastInputBGRA)

\* C10: the last-frame cache changes only in the step of an iteration that
\* passed change detection, which sets it to the snapshot of that iteration;
\* every iteration that passes change detection takes that step before it
\* is processed, and a skipped iteration takes no such step.
C10_CacheFollowsProcessedFrames ==
    [][/\ lastInputBGRA' # lastInputBGRA =>
             \E t \in TIDs : /\ pc[t] = "cache" /\ pc'[t] = "preprocess"
                             /\ lastInputBGRA' = imageBGRA[t]
       /\ \A t \in TIDs :
             /\ (pc[t] = "cache" /\ pc'[t] # "cache") =>
                    (pc'[t] = "preprocess" /\ lastInputBGRA' = imageBGRA[t])
             /\ (pc[t] # "preprocess" /\ pc'[t] = "preprocess") => pc[t] = "cache"
             /\ (pc[t] = "detect" /\ pc'[t] # "detect") =>
                    /\ lastInputBGRA' = lastInputBGRA
                    /\ pc'[t] = "cache" <=>
                          ~SkipUnchanged(imageBGRA[t], lastInputBGRA,
                                         update_on_change,
                                         update_on_change_threshold)]_vars

C10_Witness ==
    \E t \in TIDs :
        /\ pc[t] = "preprocess"
        /\ update_on_change
        /\ update_on_change_threshold > 0
        /\ lastInputBGRA = imageBGRA[t]
        /\ inputBGRA # lastInputBGRA
        /\ Len(inputBGRA) = Len(lastInputBGRA)

\* C12: a snapshot attempted while the producer holds the frame lock does
\* not wait: the iteration goes to the sleep step with no frame, and the
\* cache, the smoothing windows, the sinks and the settings lock are left as
\* they were.
C12_NoFrameNoProcessing ==
    /\ [](\A t \in TIDs : (pc[t] = "snap" /\ ~terminated) => ENABLED Snapshot(t))
    /\ [][\A t \in TIDs :
             (pc[t] = "snap" /\ pc'[t] # "snap" /\ inputBGRALock = "producer") =>
                 /\ pc'[t] = "sleep"
                 /\ imageBGRA'[t] = EmptyFrame
                 /\ UNCHANGED <<lastInputBGRA, readings, published,
                                tesseract_settings_mutex>>]_vars

C12_Witness ==
    \E t \in TIDs :
        /\ pc[t] = "sleep"
        /\ inputBGRALock = "producer"
        /\ inputBGRA # EmptyFrame
        /\ imageBGRA[t] = EmptyFrame
        /\ published[t] = {}
        /\ tesseract_thread_run

\* C13: the handler of a processing failure goes on to the sleep step, and
\* a worker leaves its loop only at the top of an iteration, on a run flag
\* that a stop in progress has cleared.
C13_FailureKeepsLoop ==
    [][\A t \in TIDs :
          /\ (pc[t] = "catch" /\ pc'[t] # "catch") => pc'[t] = "sleep"
          /\ (pc[t] # "exit" /\ pc'[t] = "exit") =>
                 /\ pc[t] = "loop"
                 /\ ~tesseract_thread_run
                 /\ cpc \in {"stop_notify", "stop_join"}]_vars

C13_Witness ==
    \E t \in TIDs :
        /\ pc[t] = "catch"
        /\ tesseract_thread_run
        /\ cpc = "idle"

\* C14: an iteration whose processing failed has published to no sink.
C14_FailedIterationPublishesNothing ==
    \A t \in TIDs : pc[t] = "catch" => published[t] = {}

\* C15: while the backend that failed to load is in place the process has
\* not been terminated and no worker thread is alive.
C15_FailedLoadLeavesNoWorker ==
    tesseract_model = "failed" => (~terminated /\ \A t \in TIDs : ~Alive(t))

\* C16: the controlling thread is between taking the settings lock and
\* releasing it (loading and configuring the backend, replacing the filter)
\* only while no worker is inside its processing step.
C16_ReconfigurationExcludesProcessing ==
    \A t \in TIDs :
        pc[t] \in Stages =>
            cpc \notin {"init_load", "init_config", "init_spawn", "init_swap"}

C16_Witness ==
    \E t \in TIDs :
        /\ pc[t] = "lock_settings"
        /\ cpc = "init_config"
        /\ caller = "init_soft"
        /\ tesseract_thread_run

\* C18: a worker that has been spawned, has not yet begun and is the only
\* worker alive finds the last-frame cache empty, so the first frame it
\* obtains is compared with no frame cached before the reset.
C18_CacheEmptyAtWorkerStart ==
    \A t \in TIDs :
        (pc[t] = "start" /\ \A u \in TIDs \ {t} : ~Alive(u)) =>
            lastInputBGRA = EmptyFrame

\* C17: when several characters share the highest count in a position's
\* window, add_reading returns the one whose oldest occurrence is oldest:
\* no character of the window occurs more often than the returned one, and
\* none that occurs as often appears earlier in the window.
C17_EarliestAmongTies ==
    lastRun > 0 =>
        \A i \in 1..word_length :
            LET w == readings[i]
                First(c) == CHOOSE j \in 1..Len(w) :
                               w[j] = c /\ \A k \in 1..(j - 1) : w[k] # c
            IN  /\ \E j \in 1..Len(w) : w[j] = out[i]
                /\ \A j \in 1..Len(w) :
                      /\ Count(w, w[j]) <= Count(w, out[i])
                      /\ Count(w, w[j]) = Count(w, out[i]) =>
                             First(out[i]) <= First(w[j])

\* a tie of "B" and "A" in which the returned "B" is the earlier, the larger
\* and the less recent of the two
C17_Witness ==
    /\ lastRun > 0
    /\ word_length = 1
    /\ readings[1] = <<"B", "A">>
    /\ out = <<"B">>

\* C19: every character add_reading returns at a position was supplied at
\* that position by a reading still in the window; it is never the initial
\* content of the window.
C19_OutputWasSupplied ==
    lastRun > 0 =>
        \A i \in 1..word_length :
            /\ out[i] # NUL
            /\ \E j \in 1..Len(readings[i]) : readings[i][j] = out[i]

\* C11: every box extract_text_detection_boxes returns has an area of at
\* least 100 and at most half the image area, and a region that is not
\* empty, has such an area and, at word level, a confidence not below the
\* threshold is the box pushed last; a region of area 50 or of more than
\* half the image area is not pushed.
C11_BoxesWithinArea ==
    /\ \A k \in 1..Len(boxes) :
          /\ Area(boxes[k]) >= 100
          /\ 2 * Area(boxes[k]) <= imageSize[1] * imageSize[2]
    /\ visited > 0 =>
          LET inRange == /\ Area(region.rect) >= 100
                         /\ 2 * Area(region.rect) <= imageSize[1] * imageSize[2]
              confident == \/ pageSegmentationMode = "PSM_SINGLE_CHAR"
                           \/ region.conf >= 10 * conf_threshold
          IN  IF ~region.empty /\ inRange /\ confident
                THEN Len(boxes) > 0 /\ boxes[Len(boxes)] = region.rect
                ELSE Len(boxes) < visited

\* a box of exactly half the image area was kept after another region was
\* discarded
C11_Witness ==
    /\ ri = "done"
    /\ visited = 2
    /\ Len(boxes) = 1
    /\ 2 * Area(boxes[1]) = imageSize[1] * imageSize[2]
    /\ region.rect = boxes[1]
    /\ ~region.empty

\* C20: a call of stop_and_join_tesseract_thread that found the run flag set
\* eventually returns.
C20_StopReturns ==
    (cpc = "stop_notify") ~> (cpc = "stop_ret")

\* the stopper is joining a worker that entered its timed wait after the
\* notification was sent
C20_Witness ==
    /\ cpc = "stop_join"
    /\ \E t \in TIDs :
          /\ tesseract_thread = t
          /\ pc[t] = "wait"
          /\ ~notified[t]

====
